---- MODULE Spec2Model ----
(***************************************************************************)
(* A model of the gphoto binding: the owning handles (Camera, CameraList,  *)
(* FileMedia, PortList), the file descriptors behind disk-backed media,    *)
(* the indexed CameraList accessors, the text retrieval path and the       *)
(* status handling of every wrapper, over a model of the native layer.     *)
(***************************************************************************)
EXTENDS Integers, Sequences, FiniteSets, TLC

(* ---------------- native status codes used by the binding ------------- *)
GP_OK == 0
GP_ERROR_BAD_PARAMETERS == -2
GP_ERROR_NOT_SUPPORTED == -6
GP_ERROR_CORRUPTED_DATA == -102
GP_ERROR_FILE_EXISTS == -103

(* What a native constructor (gp_camera_new, gp_list_new, gp_file_new,     *)
(* gp_file_new_from_fd, gp_port_info_list_new) returns: GP_OK with the     *)
(* reference stored, or GP_ERROR_NO_MEMORY (-3) with nothing stored.       *)
ConstructorStatuses == {GP_OK, -3}

(* What any other native call returns in the handle model: GP_OK, another  *)
(* non-negative success value, or the failure GP_ERROR (-1).               *)
CallStatuses == {GP_OK, 1, -1}

(* ---------------- bounds ---------------------------------------------- *)
MaxRefs == 2
MaxFds == 2

(* ---------------- error translation ----------------------------------- *)
ErrorKind(code) ==
    IF code = GP_ERROR_BAD_PARAMETERS THEN "BadParameters"
    ELSE IF code = GP_ERROR_FILE_EXISTS THEN "FileExists"
    ELSE IF code = GP_ERROR_NOT_SUPPORTED THEN "NotSupported"
    ELSE IF code = GP_ERROR_CORRUPTED_DATA THEN "CorruptedData"
    ELSE "IoFailure"

from_libgphoto2(code) == [kind |-> ErrorKind(code), code |-> code]

(* try_unsafe!: the checked-call helper; TRUE when the wrapper goes on.    *)
try_unsafe(status) == status = GP_OK

(* ---------------- paths and files ------------------------------------- *)
(* A path is a byte string; one of them holds an interior NUL.             *)
PathA == <<97>>
PathB == <<98>>
PathNul == <<97, 0, 98>>
Paths == {PathA, PathB}
PathArgs == Paths \cup {PathNul}
Contents == {"old", "empty", "img"}

(* CString::new fails on an interior NUL byte.                             *)
CString_new_ok(bytes) == \A i \in 1..Len(bytes) : bytes[i] # 0

VARIABLES
    refs,         \* native references ever acquired: [kind, released, fd]
    live,         \* the owning handles alive: [kind, ptr]
    badReleases,  \* native release calls on a pointer never acquired
    fds,          \* descriptors ever opened: [path, open, owner]
    files,        \* the filesystem: path -> "absent" or contents
    panicked,     \* an assertion failed and the stack was unwound
    last,         \* what the last operation of the handle model returned
    clist,        \* CameraList model: the native list's entries
    lres,         \* CameraList model: the last accessor call
    tres,         \* text model: the last text retrieval
    sres,         \* status model: the last wrapper call
    bres          \* buffer model: the last Camera::storage call

handleVars == <<refs, live, badReleases, fds, files, panicked, last>>
listVars == <<clist, lres>>
textVars == <<tres>>
statusVars == <<sres>>
bufferVars == <<bres>>
vars == <<refs, live, badReleases, fds, files, panicked, last,
          clist, lres, tres, sres, bres>>

(* ---------------- native layer: references and descriptors ------------ *)
NewRef(kind, fd) == [kind |-> kind, released |-> 0, fd |-> fd]

(* gp_*_unref / gp_port_info_list_free on the pointer p.                   *)
gp_unref(rs, p) == [rs EXCEPT ![p].released = @ + 1]

(* Freeing a native file closes the descriptor it was built on.            *)
CloseOnFree(fs, rs, p) ==
    IF rs[p].fd # 0 /\ rs[p].released = 0
    THEN [fs EXCEPT ![rs[p].fd].open = FALSE]
    ELSE fs

NoLast == [op |-> "none", status |-> 0, kind |-> "none", code |-> 0,
           errkind |-> "none", ptr |-> 0, fd |-> 0, path |-> <<>>,
           existed |-> FALSE, before |-> "absent", created |-> FALSE]

OkLast(op, status, ptr) ==
    [NoLast EXCEPT !.op = op, !.status = status, !.kind = "Ok", !.ptr = ptr]

ErrLast(op, status, code) ==
    [NoLast EXCEPT !.op = op, !.status = status, !.kind = "Err",
                   !.code = from_libgphoto2(code).code,
                   !.errkind = from_libgphoto2(code).kind]

(* ======================= the handle model ============================== *)
OtherModelsUnchanged ==
    UNCHANGED <<listVars, textVars, statusVars, bufferVars>>

(* A native constructor called with status st: the reference is stored     *)
(* exactly when the call succeeds.                                         *)
gp_new(rs, kind, fd, st) ==
    IF st = GP_OK THEN Append(rs, NewRef(kind, fd)) ELSE rs

(* The pointer the wrapper reads back from the out-parameter: the stored   *)
(* reference, or the uninitialised slot (0) when nothing was stored.       *)
OutPtr(before, after) == IF Len(after) > Len(before) THEN Len(after) ELSE 0

Handle(kind, ptr) == [kind |-> kind, ptr |-> ptr]

(* impl Drop: what each destructor does to the native references.          *)
Camera_drop_refs(rs, p) == gp_unref(rs, p)

CameraList_drop_leak(rs, p) == rs

CameraList_drop_refs(rs, p) == gp_unref(rs, p)

FileMedia_drop_refs(rs, p) == gp_unref(rs, p)

PortList_drop_refs(rs, p) == gp_unref(rs, p)

DropRefs(kind, rs, p) ==
    CASE kind = "camera" -> Camera_drop_refs(rs, p)
      [] kind = "list" -> CameraList_drop_refs(rs, p)
      [] kind = "file" -> FileMedia_drop_refs(rs, p)
      [] kind = "portlist" -> PortList_drop_refs(rs, p)

(* The state after handle h is destroyed, as <<refs, fds, badReleases>>.   *)
Dropped(h, rs, fs, bad) ==
    IF h.ptr \in DOMAIN rs
    THEN <<DropRefs(h.kind, rs, h.ptr), CloseOnFree(fs, rs, h.ptr), bad>>
    ELSE <<rs, fs, bad + 1>>

Running == ~panicked

(* Camera::new *)
Camera_new ==
    /\ Running /\ Len(refs) < MaxRefs
    /\ \E st \in ConstructorStatuses :
         LET rs == gp_new(refs, "camera", 0, st) IN
         /\ refs' = rs
         /\ IF try_unsafe(st)
            THEN /\ live' = live \cup {Handle("camera", OutPtr(refs, rs))}
                 /\ last' = OkLast("Camera_new", st, OutPtr(refs, rs))
            ELSE /\ live' = live
                 /\ last' = ErrLast("Camera_new", st, st)
    /\ UNCHANGED <<badReleases, fds, files, panicked>>
    /\ OtherModelsUnchanged

(* Camera::autodetect: CameraList::new()?, then the detection; an error    *)
(* of the detection returns early and destroys the list just allocated.    *)
Camera_autodetect ==
    /\ Running /\ Len(refs) < MaxRefs
    /\ \E stNew \in ConstructorStatuses, stDetect \in CallStatuses :
         LET rs == gp_new(refs, "list", 0, stNew)
             list == Handle("list", OutPtr(refs, rs))
         IN
         IF ~try_unsafe(stNew)
         THEN /\ refs' = rs /\ live' = live
              /\ UNCHANGED <<badReleases, fds>>
              /\ last' = ErrLast("Camera_autodetect", stNew, stNew)
         ELSE IF ~try_unsafe(stDetect)
         THEN LET d == Dropped(list, rs, fds, badReleases) IN
              /\ refs' = d[1] /\ fds' = d[2] /\ badReleases' = d[3]
              /\ live' = live
              /\ last' = [ErrLast("Camera_autodetect", stDetect, stDetect)
                            EXCEPT !.ptr = list.ptr]
         ELSE /\ refs' = rs /\ live' = live \cup {list}
              /\ UNCHANGED <<badReleases, fds>>
              /\ last' = OkLast("Camera_autodetect", stDetect, list.ptr)
    /\ UNCHANGED <<files, panicked>>
    /\ OtherModelsUnchanged

(* PortList::new *)
PortList_new ==
    /\ Running /\ Len(refs) < MaxRefs
    /\ \E st \in ConstructorStatuses :
         LET rs == gp_new(refs, "portlist", 0, st) IN
         /\ refs' = rs
         /\ IF try_unsafe(st)
            THEN /\ live' = live \cup {Handle("portlist", OutPtr(refs, rs))}
                 /\ last' = OkLast("PortList_new", st, OutPtr(refs, rs))
            ELSE /\ live' = live
                 /\ last' = ErrLast("PortList_new", st, st)
    /\ UNCHANGED <<badReleases, fds, files, panicked>>
    /\ OtherModelsUnchanged

(* The match of FileMedia::new, from_file, from_raw_fd and data on the     *)
(* native status: TRUE for the Ok arm.                                     *)
FileMedia_status_unchecked(status) == TRUE

FileMedia_status_ok(status) == status = GP_OK

(* FileMedia::new: a memory-backed sink. *)
FileMedia_new ==
    /\ Running /\ Len(refs) < MaxRefs
    /\ \E st \in ConstructorStatuses :
         LET rs == gp_new(refs, "file", 0, st) IN
         /\ refs' = rs
         /\ IF FileMedia_status_ok(st)
            THEN /\ live' = live \cup {Handle("file", OutPtr(refs, rs))}
                 /\ last' = OkLast("FileMedia_new", st, OutPtr(refs, rs))
            ELSE /\ live' = live
                 /\ last' = ErrLast("FileMedia_new", st, st)
    /\ UNCHANGED <<badReleases, fds, files, panicked>>
    /\ OtherModelsUnchanged

(* ---------------- descriptors ----------------------------------------- *)
NewFd(path, owner) == [path |-> path, open |-> TRUE, owner |-> owner]

(* libc::open(path, O_CREAT|O_EXCL|O_RDWR, 0o644) returns a descriptor     *)
(* (TRUE) or -1: O_EXCL refuses a path that exists; sysOk is whether the   *)
(* system grants the open at all (permissions, descriptor table).          *)
open_without_excl(fl, path, sysOk) == sysOk

open_creat_excl(fl, path, sysOk) == fl[path] = "absent" /\ sysOk

(* The filesystem after a successful open with O_CREAT: a missing file is  *)
(* created empty, an existing one is left as it is (no O_TRUNC).           *)
AfterCreat(fl, path) ==
    IF fl[path] = "absent" THEN [fl EXCEPT ![path] = "empty"] ELSE fl

(* FileMedia::from_raw_fd on descriptor fd, whose owner so far is `prev`:  *)
(* <<refs, live, fds, result>> after gp_file_new_from_fd returned st. On   *)
(* the Ok arm the native file owns the descriptor; on the Err arm nothing  *)
(* closes it and it stays with whoever held it.                            *)
from_raw_fd_state(op, fd, st, rs0, lv, fs) ==
    LET rs == gp_new(rs0, "file", fd, st) IN
    IF FileMedia_status_ok(st)
    THEN <<rs, lv \cup {Handle("file", OutPtr(rs0, rs))},
           [fs EXCEPT ![fd].owner = "sink"],
           [OkLast(op, st, OutPtr(rs0, rs)) EXCEPT !.fd = fd]>>
    ELSE <<rs, lv, fs, [ErrLast(op, st, st) EXCEPT !.fd = fd]>>

(* FileMedia::create *)
FileMedia_create ==
    /\ Running
    /\ \E path \in PathArgs, sysOk \in BOOLEAN, st \in ConstructorStatuses :
         IF ~CString_new_ok(path)
         THEN /\ last' = [ErrLast("FileMedia_create", 0, GP_ERROR_BAD_PARAMETERS)
                            EXCEPT !.path = path]
              /\ UNCHANGED <<refs, live, fds, files>>
         ELSE IF ~open_creat_excl(files, path, sysOk)
         THEN /\ last' = [ErrLast("FileMedia_create", 0, GP_ERROR_FILE_EXISTS)
                            EXCEPT !.path = path,
                                   !.existed = files[path] # "absent",
                                   !.before = files[path]]
              /\ UNCHANGED <<refs, live, fds, files>>
         ELSE LET fs == Append(fds, NewFd(path, "none"))
                  fd == Len(fs)
                  r == from_raw_fd_state("FileMedia_create", fd, st, refs, live, fs)
              IN
              /\ Len(refs) < MaxRefs /\ Len(fds) < MaxFds
              /\ files' = AfterCreat(files, path)
              /\ refs' = r[1] /\ live' = r[2] /\ fds' = r[3]
              /\ last' = [r[4] EXCEPT !.path = path,
                                      !.existed = files[path] # "absent",
                                      !.before = files[path],
                                      !.created = files[path] = "absent"]
    /\ UNCHANGED <<badReleases, panicked>>
    /\ OtherModelsUnchanged

(* The caller opens a std::fs::File on a path (creating it when missing)   *)
(* to hand it, or its raw descriptor, to a constructor.                    *)
Caller_open ==
    /\ Running /\ Len(fds) < MaxFds
    /\ \E path \in Paths :
         /\ fds' = Append(fds, NewFd(path, "caller"))
         /\ files' = AfterCreat(files, path)
         /\ last' = [OkLast("Caller_open", 0, 0) EXCEPT !.fd = Len(fds) + 1,
                                                       !.path = path]
    /\ UNCHANGED <<refs, live, badReleases, panicked>>
    /\ OtherModelsUnchanged

CallerFds == {f \in DOMAIN fds : fds[f].open /\ fds[f].owner = "caller"}

(* FileMedia::from_file: f.into_raw_fd() takes the descriptor out of the   *)
(* File, which will no longer close it.                                    *)
from_file_state(op, fd, st, rs0, lv, fs) ==
    from_raw_fd_state(op, fd, st, rs0, lv, [fs EXCEPT ![fd].owner = "none"])

FileMedia_from_file ==
    /\ Running /\ Len(refs) < MaxRefs
    /\ \E fd \in CallerFds, st \in ConstructorStatuses :
         LET r == from_file_state("FileMedia_from_file", fd, st, refs, live, fds) IN
         refs' = r[1] /\ live' = r[2] /\ fds' = r[3] /\ last' = r[4]
    /\ UNCHANGED <<badReleases, files, panicked>>
    /\ OtherModelsUnchanged

(* TryFrom<File> for FileMedia *)
FileMedia_try_from ==
    /\ Running /\ Len(refs) < MaxRefs
    /\ \E fd \in CallerFds, st \in ConstructorStatuses :
         LET r == from_file_state("FileMedia_try_from", fd, st, refs, live, fds) IN
         refs' = r[1] /\ live' = r[2] /\ fds' = r[3] /\ last' = r[4]
    /\ UNCHANGED <<badReleases, files, panicked>>
    /\ OtherModelsUnchanged

(* FileMedia::from_raw_fd, called with a descriptor the caller holds.      *)
FileMedia_from_raw_fd ==
    /\ Running /\ Len(refs) < MaxRefs
    /\ \E fd \in CallerFds, st \in ConstructorStatuses :
         LET r == from_raw_fd_state("FileMedia_from_raw_fd", fd, st, refs, live, fds) IN
         refs' = r[1] /\ live' = r[2] /\ fds' = r[3] /\ last' = r[4]
    /\ UNCHANGED <<badReleases, files, panicked>>
    /\ OtherModelsUnchanged

(* The native layer stores downloaded or captured bytes in the sink; a     *)
(* descriptor-backed sink writes them to its file.                         *)
SinkWritten(fl, rs, fs, p) ==
    IF rs[p].fd # 0 /\ fs[rs[p].fd].open
    THEN [fl EXCEPT ![fs[rs[p].fd].path] = "img"]
    ELSE fl

LiveOf(kind) == {h \in live : h.kind = kind /\ h.ptr \in DOMAIN refs}

(* Camera::download *)
Camera_download ==
    /\ Running
    /\ \E cam \in LiveOf("camera"), dst \in LiveOf("file"), st \in CallStatuses :
         /\ files' = IF st >= GP_OK THEN SinkWritten(files, refs, fds, dst.ptr)
                     ELSE files
         /\ last' = IF try_unsafe(st) THEN OkLast("Camera_download", st, dst.ptr)
                    ELSE ErrLast("Camera_download", st, st)
    /\ UNCHANGED <<refs, live, badReleases, fds, panicked>>
    /\ OtherModelsUnchanged

(* Camera::capture_preview *)
Camera_capture_preview ==
    /\ Running
    /\ \E cam \in LiveOf("camera"), dst \in LiveOf("file"), st \in CallStatuses :
         /\ files' = IF st >= GP_OK THEN SinkWritten(files, refs, fds, dst.ptr)
                     ELSE files
         /\ last' = IF try_unsafe(st) THEN OkLast("Camera_capture_preview", st, dst.ptr)
                    ELSE ErrLast("Camera_capture_preview", st, st)
    /\ UNCHANGED <<refs, live, badReleases, fds, panicked>>
    /\ OtherModelsUnchanged

(* assert_eq!(GP_OK, status) of Camera::port, Camera::abilities and the    *)
(* Port accessors: TRUE when the assertion passes.                         *)
assert_GP_OK(status) == status = GP_OK

(* Camera::port: a failed assertion panics; the unwinding that follows     *)
(* runs the destructors of the handles still alive (the drop actions).     *)
Camera_port ==
    /\ Running
    /\ \E cam \in LiveOf("camera"), st \in CallStatuses :
         /\ panicked' = ~assert_GP_OK(st)
         /\ last' = IF assert_GP_OK(st) THEN OkLast("Camera_port", st, cam.ptr)
                    ELSE [NoLast EXCEPT !.op = "Camera_port", !.status = st,
                                        !.kind = "Panic"]
    /\ UNCHANGED <<refs, live, badReleases, fds, files>>
    /\ OtherModelsUnchanged

(* A handle goes out of scope (or is unwound): its destructor runs.        *)
DropStep(h, op) ==
    LET d == Dropped(h, refs, fds, badReleases) IN
    /\ refs' = d[1] /\ fds' = d[2] /\ badReleases' = d[3]
    /\ live' = live \ {h}
    /\ last' = [NoLast EXCEPT !.op = op, !.kind = "Ok", !.ptr = h.ptr]
    /\ UNCHANGED <<files, panicked>>
    /\ OtherModelsUnchanged

Camera_drop ==
    \E h \in live : h.kind = "camera" /\ DropStep(h, "Camera_drop")

CameraList_drop ==
    \E h \in live : h.kind = "list" /\ DropStep(h, "CameraList_drop")

FileMedia_drop ==
    \E h \in live : h.kind = "file" /\ DropStep(h, "FileMedia_drop")

PortList_drop ==
    \E h \in live : h.kind = "portlist" /\ DropStep(h, "PortList_drop")

(* ---------------- initial state and the handle specification ---------- *)
EmptyCall == [op |-> "none"]

Init ==
    /\ refs = <<>> /\ live = {} /\ badReleases = 0
    /\ fds = <<>>
    /\ files = [p \in Paths |-> IF p = PathA THEN "old" ELSE "absent"]
    /\ panicked = FALSE
    /\ last = NoLast
    /\ clist = <<>> /\ lres = EmptyCall
    /\ tres = EmptyCall
    /\ sres = EmptyCall
    /\ bres = EmptyCall

Next ==
    \/ Camera_new
    \/ Camera_autodetect
    \/ PortList_new
    \/ FileMedia_new
    \/ FileMedia_create
    \/ Caller_open
    \/ FileMedia_from_file
    \/ FileMedia_try_from
    \/ FileMedia_from_raw_fd
    \/ Camera_download
    \/ Camera_capture_preview
    \/ Camera_port
    \/ Camera_drop
    \/ CameraList_drop
    \/ FileMedia_drop
    \/ PortList_drop

Spec == Init /\ [][Next]_vars

(* ======================= claims on the handle model ==================== *)

C3_CreateOnExistingPath ==
    (last.op = "FileMedia_create" /\ last.existed) =>
        /\ last.kind = "Err"
        /\ last.errkind = "FileExists" /\ last.code = GP_ERROR_FILE_EXISTS
        /\ files[last.path] = last.before
        /\ last.ptr = 0 /\ last.fd = 0

C3_Witness ==
    /\ last.op = "FileMedia_create" /\ last.existed
    /\ last.before = "img" /\ last.kind = "Err"

(* C10: every open descriptor has an owner (the caller or a sink) at all   *)
(* times, and create never returns an error while leaving behind the file  *)
(* it has just created.                                                    *)
C10_DescriptorAlwaysOwned ==
    /\ \A f \in DOMAIN fds : fds[f].open => fds[f].owner # "none"
    /\ (last.op = "FileMedia_create" /\ last.kind = "Err") => ~last.created

(* ======================= UTF-8, as the standard library checks it ====== *)
IsCont(b) == b >= 128 /\ b <= 191

(* The length a lead byte announces; 0 for a byte that cannot lead.        *)
Utf8Width(b) ==
    IF b < 128 THEN 1
    ELSE IF b >= 194 /\ b <= 223 THEN 2
    ELSE IF b >= 224 /\ b <= 239 THEN 3
    ELSE IF b >= 240 /\ b <= 244 THEN 4
    ELSE 0

(* The second byte of a three- or four-byte sequence: no overlong forms,   *)
(* no surrogates, nothing above U+10FFFF.                                  *)
Second3Ok(b, c) ==
    \/ b = 224 /\ c >= 160 /\ c <= 191
    \/ b >= 225 /\ b <= 236 /\ IsCont(c)
    \/ b = 237 /\ c >= 128 /\ c <= 159
    \/ b >= 238 /\ b <= 239 /\ IsCont(c)

Second4Ok(b, c) ==
    \/ b = 240 /\ c >= 144 /\ c <= 191
    \/ b >= 241 /\ b <= 243 /\ IsCont(c)
    \/ b = 244 /\ c >= 128 /\ c <= 143

(* The length of the well-formed sequence that starts at s[i], 0 if none.  *)
SeqLenAt(s, i) ==
    LET b == s[i]
        w == Utf8Width(b)
        n == Len(s)
    IN
    IF w = 1 THEN 1
    ELSE IF w = 2 THEN (IF i + 1 <= n /\ IsCont(s[i + 1]) THEN 2 ELSE 0)
    ELSE IF w = 3
         THEN (IF i + 2 <= n /\ Second3Ok(b, s[i + 1]) /\ IsCont(s[i + 2])
               THEN 3 ELSE 0)
    ELSE IF w = 4
         THEN (IF i + 3 <= n /\ Second4Ok(b, s[i + 1]) /\ IsCont(s[i + 2])
                  /\ IsCont(s[i + 3])
               THEN 4 ELSE 0)
    ELSE 0

(* The bytes one replacement character stands for when s[i] starts no      *)
(* well-formed sequence: the longest prefix that could have started one.   *)
InvalidLenAt(s, i) ==
    LET b == s[i]
        w == Utf8Width(b)
        n == Len(s)
    IN
    IF w = 3
    THEN (IF i + 1 <= n /\ Second3Ok(b, s[i + 1]) THEN 2 ELSE 1)
    ELSE IF w = 4
    THEN (IF i + 1 <= n /\ Second4Ok(b, s[i + 1])
          THEN (IF i + 2 <= n /\ IsCont(s[i + 2]) THEN 3 ELSE 2)
          ELSE 1)
    ELSE 1

RECURSIVE ValidFrom(_, _)
ValidFrom(s, i) ==
    IF i > Len(s) THEN TRUE
    ELSE LET k == SeqLenAt(s, i) IN k # 0 /\ ValidFrom(s, i + k)

(* String::from_utf8 accepts exactly the well-formed byte strings.         *)
from_utf8_ok(s) == ValidFrom(s, 1)

ReplacementChar == <<239, 191, 189>>

RECURSIVE LossyFrom(_, _)
LossyFrom(s, i) ==
    IF i > Len(s) THEN <<>>
    ELSE LET k == SeqLenAt(s, i) IN
         IF k # 0 THEN SubSeq(s, i, i + k - 1) \o LossyFrom(s, i + k)
         ELSE ReplacementChar \o LossyFrom(s, i + InvalidLenAt(s, i))

(* CStr::to_string_lossy, then Cow::into_owned: the bytes of the String.   *)
to_string_lossy(s) == LossyFrom(s, 1)

(* ======================= the CameraList model ========================== *)
MaxEntries == 2

(* Detected devices: name (the camera's label) and value (its port), both  *)
(* NUL-terminated native strings; one label is not well-formed UTF-8.      *)
Devices ==
    { [name |-> <<67>>, value |-> <<117, 49>>],
      [name |-> <<78, 255>>, value |-> <<117, 50>>],
      [name |-> <<195, 169>>, value |-> <<115>>] }

DetectedLists ==
    UNION { { l \in [1..n -> Devices] : \A a, b \in 1..n : a # b => l[a] # l[b] }
            : n \in 0..MaxEntries }

(* A usize index as four 16-bit words, most significant first.             *)
Usize(k) == <<0, 0, 0, k>>

IndexArgs ==
    { Usize(k) : k \in 0..(MaxEntries + 1) } \cup
    { <<0, 0, 32768, 0>>,             \* 2^31
      <<0, 0, 65535, 65535>>,         \* 2^32 - 1
      <<0, 1, 0, 0>>,                 \* 2^32
      <<0, 1, 0, 1>>,                 \* 2^32 + 1
      <<1, 0, 0, 0>>,                 \* 2^48
      <<65535, 65535, 65535, 65535>> }  \* usize::MAX

(* i < n for a usize i and a small count n.                                *)
UsizeBelow(i, n) == i[1] = 0 /\ i[2] = 0 /\ i[3] = 0 /\ i[4] < n

(* `i as libc::c_int`: the low 32 bits, read as a signed integer.          *)
as_c_int(i) ==
    IF i[3] >= 32768 THEN (i[3] - 65536) * 65536 + i[4]
    ELSE i[3] * 65536 + i[4]

(* gp_list_count *)
gp_list_count(list) == Len(list)

(* gp_list_get_name / gp_list_get_value: the native bounds check on the    *)
(* int index, then the entry's field.                                      *)
gp_list_get_name(list, idx) ==
    IF idx < 0 \/ idx >= Len(list)
    THEN [status |-> GP_ERROR_BAD_PARAMETERS, str |-> <<>>]
    ELSE [status |-> GP_OK, str |-> list[idx + 1].name]

gp_list_get_value(list, idx) ==
    IF idx < 0 \/ idx >= Len(list)
    THEN [status |-> GP_ERROR_BAD_PARAMETERS, str |-> <<>>]
    ELSE [status |-> GP_OK, str |-> list[idx + 1].value]

ListCall(op, i, kind, code, data, n) ==
    [op |-> op, i |-> i, kind |-> kind, code |-> code, data |-> data, n |-> n]

(* CameraList::name_cstr *)
name_cstr(list, i) ==
    LET r == gp_list_get_name(list, as_c_int(i)) IN
    IF try_unsafe(r.status)
    THEN [kind |-> "Ok", code |-> 0, data |-> r.str]
    ELSE [kind |-> "Err", code |-> from_libgphoto2(r.status).code, data |-> <<>>]

(* CameraList::value_cstr *)
value_cstr(list, i) ==
    LET r == gp_list_get_name(list, as_c_int(i)) IN
    IF try_unsafe(r.status)
    THEN [kind |-> "Ok", code |-> 0, data |-> r.str]
    ELSE [kind |-> "Err", code |-> from_libgphoto2(r.status).code, data |-> <<>>]

(* Result::map(CStr::to_string_lossy).map(Cow::into_owned) *)
MapLossy(r) ==
    IF r.kind = "Ok" THEN [r EXCEPT !.data = to_string_lossy(r.data)] ELSE r

(* Camera::autodetect, seen from the list: the devices found now.          *)
List_autodetect ==
    /\ \E l \in DetectedLists :
         /\ clist' = l
         /\ lres' = ListCall("autodetect", Usize(0), "Ok", 0, <<>>, Len(l))
    /\ UNCHANGED <<handleVars, textVars, statusVars, bufferVars>>

(* CameraList::len *)
CameraList_len ==
    /\ lres.op # "none"
    /\ LET l == gp_list_count(clist) IN
       lres' = IF l < 0 THEN ListCall("len", Usize(0), "Panic", 0, <<>>, 0)
               ELSE ListCall("len", Usize(0), "Ok", 0, <<>>, l)
    /\ UNCHANGED <<clist, handleVars, textVars, statusVars, bufferVars>>

CameraList_name_cstr ==
    /\ lres.op # "none"
    /\ \E i \in IndexArgs :
         LET r == name_cstr(clist, i) IN
         lres' = ListCall("name_cstr", i, r.kind, r.code, r.data, 0)
    /\ UNCHANGED <<clist, handleVars, textVars, statusVars, bufferVars>>

(* CameraList::name *)
CameraList_name ==
    /\ lres.op # "none"
    /\ \E i \in IndexArgs :
         LET r == MapLossy(name_cstr(clist, i)) IN
         lres' = ListCall("name", i, r.kind, r.code, r.data, 0)
    /\ UNCHANGED <<clist, handleVars, textVars, statusVars, bufferVars>>

CameraList_value_cstr ==
    /\ lres.op # "none"
    /\ \E i \in IndexArgs :
         LET r == value_cstr(clist, i) IN
         lres' = ListCall("value_cstr", i, r.kind, r.code, r.data, 0)
    /\ UNCHANGED <<clist, handleVars, textVars, statusVars, bufferVars>>

(* CameraList::value *)
CameraList_value ==
    /\ lres.op # "none"
    /\ \E i \in IndexArgs :
         LET r == MapLossy(value_cstr(clist, i)) IN
         lres' = ListCall("value", i, r.kind, r.code, r.data, 0)
    /\ UNCHANGED <<clist, handleVars, textVars, statusVars, bufferVars>>

NextList ==
    \/ List_autodetect
    \/ CameraList_len
    \/ CameraList_name_cstr
    \/ CameraList_name
    \/ CameraList_value_cstr
    \/ CameraList_value

SpecList == Init /\ [][NextList]_vars

(* C2: for every valid index i, value_cstr(i) returns the value field (the *)
(* port identifier) of entry i, and value(i) its lossy conversion; not the *)
(* name field.                                                             *)
C2_ValueReadsValueField ==
    /\ (lres.op = "value_cstr" /\ UsizeBelow(lres.i, Len(clist))) =>
           /\ lres.kind = "Ok"
           /\ lres.data = clist[lres.i[4] + 1].value
    /\ (lres.op = "value" /\ UsizeBelow(lres.i, Len(clist))) =>
           /\ lres.kind = "Ok"
           /\ lres.data = to_string_lossy(clist[lres.i[4] + 1].value)

(* C4: len() returns the number of entries N; name(i), name_cstr(i),       *)
(* value(i) and value_cstr(i) succeed when i < N and return an error when  *)
(* i >= N, whatever the size of i.                                         *)
C4_IndexBoundsChecked ==
    /\ lres.op = "len" => (lres.kind = "Ok" /\ lres.n = Len(clist))
    /\ lres.op \in {"name", "name_cstr", "value", "value_cstr"} =>
           IF UsizeBelow(lres.i, Len(clist))
           THEN lres.kind = "Ok"
           ELSE lres.kind = "Err"

(* ======================= the text retrieval model ====================== *)
(* The capacity of the CameraText buffer, scaled down.                     *)
TextCap == 3

ByteAlphabet == {0, 65, 169, 195, 255}

(* What gp_camera_get_summary / _manual / _about return: GP_OK with the    *)
(* buffer filled, GP_ERROR_NOT_SUPPORTED, or GP_ERROR (-1).                *)
TextStatuses == {GP_OK, GP_ERROR_NOT_SUPPORTED, -1}

(* A filled buffer is NUL-terminated within its capacity.                  *)
TextBuffers ==
    { b \in [1..TextCap -> ByteAlphabet] : \E i \in 1..TextCap : b[i] = 0 }

(* CStr::from_ptr(..).to_bytes().len(): the bytes before the first NUL.    *)
strlen(b) == (CHOOSE i \in 1..Len(b) : b[i] = 0 /\ \A j \in 1..(i - 1) : b[j] # 0) - 1

BeforeNul(b) == SubSeq(b, 1, strlen(b))

BytesOfLen(n) == [1..n -> ByteAlphabet]

TextCall(op, status, buf, kind, code, errkind, len, storage, observed, freed) ==
    [op |-> op, status |-> status, buf |-> buf, kind |-> kind, code |-> code,
     errkind |-> errkind, len |-> len, storage |-> storage,
     observed |-> observed, freed |-> freed]

(* util::camera_text_to_string: the outcomes of one call on buffer b, as   *)
(* [kind, code, len, storage, observed]. The Vec is built over the text    *)
(* array of the by-value argument. Valid UTF-8: the String keeps that      *)
(* pointer, so after the return it refers to a dead stack slot and the     *)
(* bytes the caller reads through it are whatever the slot then holds.     *)
(* Invalid UTF-8: the error is dropped with the Vec inside it, which       *)
(* frees a pointer the allocator never returned: the allocator aborts the  *)
(* process or lets the call return the CorruptedData error. `storage` is   *)
(* where the returned String's bytes live, `freed` what the call itself    *)
(* handed to the allocator's free.                                         *)
camera_text_to_string(b) ==
    LET length == strlen(b)
        vec == SubSeq(b, 1, length)
    IN
    IF from_utf8_ok(vec)
    THEN { [kind |-> "Ok", code |-> 0, len |-> length, storage |-> "stack",
            observed |-> o, freed |-> "none"] : o \in BytesOfLen(length) }
    ELSE { [kind |-> "Err", code |-> GP_ERROR_CORRUPTED_DATA, len |-> 0,
            storage |-> "none", observed |-> <<>>, freed |-> "stack"],
           [kind |-> "Abort", code |-> 0, len |-> 0,
            storage |-> "none", observed |-> <<>>, freed |-> "stack"] }

(* The body shared by Camera::summary, manual and about_driver: the native *)
(* call through try_unsafe!, then the conversion of the filled buffer.     *)
TextOp(op) ==
    \E st \in TextStatuses :
        IF ~try_unsafe(st)
        THEN tres' = TextCall(op, st, <<>>, "Err", from_libgphoto2(st).code,
                              from_libgphoto2(st).kind, 0, "none", <<>>,
                              "none")
        ELSE \E b \in TextBuffers :
               \E r \in camera_text_to_string(b) :
                 tres' = TextCall(op, st, b, r.kind, r.code,
                                  IF r.kind = "Err"
                                  THEN from_libgphoto2(r.code).kind ELSE "none",
                                  r.len, r.storage, r.observed, r.freed)

(* Camera::summary *)
Camera_summary ==
    /\ TextOp("summary")
    /\ UNCHANGED <<handleVars, listVars, statusVars, bufferVars>>

(* Camera::manual *)
Camera_manual ==
    /\ TextOp("manual")
    /\ UNCHANGED <<handleVars, listVars, statusVars, bufferVars>>

(* Camera::about_driver *)
Camera_about_driver ==
    /\ TextOp("about_driver")
    /\ UNCHANGED <<handleVars, listVars, statusVars, bufferVars>>

NextText ==
    \/ Camera_summary
    \/ Camera_manual
    \/ Camera_about_driver

SpecText == Init /\ [][NextText]_vars

(* C5: summary, manual and about_driver return NotSupported when the       *)
(* native layer reports that the device or driver has no such text, and    *)
(* none of them ever returns Ok with an empty string.                      *)
C5_NoTextIsNotSupported ==
    tres.op # "none" =>
        /\ tres.status = GP_ERROR_NOT_SUPPORTED =>
               (tres.kind = "Err" /\ tres.errkind = "NotSupported")
        /\ ~(tres.kind = "Ok" /\ tres.len = 0)

(* C6: when the bytes before the first NUL of the filled buffer are not    *)
(* valid UTF-8 the operation returns CorruptedData; when they are valid    *)
(* the string the caller gets is exactly those bytes.                      *)
C6_TextIsValidatedUtf8 ==
    (tres.op # "none" /\ tres.status = GP_OK) =>
        IF from_utf8_ok(BeforeNul(tres.buf))
        THEN tres.kind = "Ok" /\ tres.observed = BeforeNul(tres.buf)
        ELSE tres.kind = "Err" /\ tres.code = GP_ERROR_CORRUPTED_DATA

(* ======================= the status model ============================== *)
(* Every wrapper applied to one native status: which arm it takes.         *)
MaxStatus == 2

StatusArgs == (0 - MaxStatus)..MaxStatus

StatusCall(op, status, kind, code) ==
    [op |-> op, status |-> status, kind |-> kind, code |-> code]

(* A wrapper whose native call goes through try_unsafe!.                   *)
ByTryUnsafe(op, st) ==
    IF try_unsafe(st) THEN StatusCall(op, st, "Success", 0)
    ELSE StatusCall(op, st, "Err", from_libgphoto2(st).code)

(* A FileMedia wrapper: the match with a GP_OK arm and an `err` arm.       *)
ByFileMediaMatch(op, st) ==
    IF FileMedia_status_ok(st) THEN StatusCall(op, st, "Success", 0)
    ELSE StatusCall(op, st, "Err", from_libgphoto2(st).code)

(* PortList::lookup_name / lookup_path: `idx if idx >= 0 => idx`.          *)
lookup_index_ok(idx) == idx >= 0

ByLookup(op, st) ==
    IF lookup_index_ok(st) THEN StatusCall(op, st, "Success", 0)
    ELSE StatusCall(op, st, "Err", from_libgphoto2(st).code)

(* Camera::port / abilities and the Port accessors: assert_eq!(GP_OK, ..). *)
ByAssert(op, st) ==
    IF assert_GP_OK(st) THEN StatusCall(op, st, "Success", 0)
    ELSE StatusCall(op, st, "Panic", 0)

(* CameraList::len / PortList::len: `if l < 0 { panic!() }`.               *)
ByLen(op, st) ==
    IF st < 0 THEN StatusCall(op, st, "Panic", 0)
    ELSE StatusCall(op, st, "Success", 0)

StatusFrame == UNCHANGED <<handleVars, listVars, textVars, bufferVars>>

(* Camera::new *)
St_Camera_new ==
    /\ \E st \in StatusArgs : sres' = ByTryUnsafe("Camera_new", st)
    /\ StatusFrame

(* Camera::init *)
St_Camera_init ==
    /\ \E st \in StatusArgs : sres' = ByTryUnsafe("Camera_init", st)
    /\ StatusFrame

(* Camera::autodetect *)
St_Camera_autodetect ==
    /\ \E st \in StatusArgs : sres' = ByTryUnsafe("Camera_autodetect", st)
    /\ StatusFrame

(* Camera::capture_image *)
St_Camera_capture_image ==
    /\ \E st \in StatusArgs : sres' = ByTryUnsafe("Camera_capture_image", st)
    /\ StatusFrame

(* Camera::download *)
St_Camera_download ==
    /\ \E st \in StatusArgs : sres' = ByTryUnsafe("Camera_download", st)
    /\ StatusFrame

(* Camera::capture_preview *)
St_Camera_capture_preview ==
    /\ \E st \in StatusArgs : sres' = ByTryUnsafe("Camera_capture_preview", st)
    /\ StatusFrame

(* Camera::storage *)
St_Camera_storage ==
    /\ \E st \in StatusArgs : sres' = ByTryUnsafe("Camera_storage", st)
    /\ StatusFrame

(* Camera::summary *)
St_Camera_summary ==
    /\ \E st \in StatusArgs : sres' = ByTryUnsafe("Camera_summary", st)
    /\ StatusFrame

(* Camera::manual *)
St_Camera_manual ==
    /\ \E st \in StatusArgs : sres' = ByTryUnsafe("Camera_manual", st)
    /\ StatusFrame

(* Camera::about_driver *)
St_Camera_about_driver ==
    /\ \E st \in StatusArgs : sres' = ByTryUnsafe("Camera_about_driver", st)
    /\ StatusFrame

(* CameraList::name / name_cstr *)
St_CameraList_name ==
    /\ \E st \in StatusArgs : sres' = ByTryUnsafe("CameraList_name", st)
    /\ StatusFrame

(* CameraList::value / value_cstr *)
St_CameraList_value ==
    /\ \E st \in StatusArgs : sres' = ByTryUnsafe("CameraList_value", st)
    /\ StatusFrame

(* PortList::new *)
St_PortList_new ==
    /\ \E st \in StatusArgs : sres' = ByTryUnsafe("PortList_new", st)
    /\ StatusFrame

(* PortList::load *)
St_PortList_load ==
    /\ \E st \in StatusArgs : sres' = ByTryUnsafe("PortList_load", st)
    /\ StatusFrame

(* FileMedia::new *)
St_FileMedia_new ==
    /\ \E st \in StatusArgs : sres' = ByFileMediaMatch("FileMedia_new", st)
    /\ StatusFrame

(* FileMedia::create, through from_raw_fd *)
St_FileMedia_create ==
    /\ \E st \in StatusArgs : sres' = ByFileMediaMatch("FileMedia_create", st)
    /\ StatusFrame

(* FileMedia::from_file *)
St_FileMedia_from_file ==
    /\ \E st \in StatusArgs : sres' = ByFileMediaMatch("FileMedia_from_file", st)
    /\ StatusFrame

(* TryFrom<File> for FileMedia *)
St_FileMedia_try_from ==
    /\ \E st \in StatusArgs : sres' = ByFileMediaMatch("FileMedia_try_from", st)
    /\ StatusFrame

(* FileMedia::from_raw_fd *)
St_FileMedia_from_raw_fd ==
    /\ \E st \in StatusArgs : sres' = ByFileMediaMatch("FileMedia_from_raw_fd", st)
    /\ StatusFrame

(* FileMedia::data *)
St_FileMedia_data ==
    /\ \E st \in StatusArgs : sres' = ByFileMediaMatch("FileMedia_data", st)
    /\ StatusFrame

(* PortList::lookup_name *)
St_PortList_lookup_name ==
    /\ \E st \in StatusArgs : sres' = ByLookup("PortList_lookup_name", st)
    /\ StatusFrame

(* PortList::lookup_path *)
St_PortList_lookup_path ==
    /\ \E st \in StatusArgs : sres' = ByLookup("PortList_lookup_path", st)
    /\ StatusFrame

(* Camera::port *)
St_Camera_port ==
    /\ \E st \in StatusArgs : sres' = ByAssert("Camera_port", st)
    /\ StatusFrame

(* Camera::abilities *)
St_Camera_abilities ==
    /\ \E st \in StatusArgs : sres' = ByAssert("Camera_abilities", st)
    /\ StatusFrame

(* Port::port_type *)
St_Port_port_type ==
    /\ \E st \in StatusArgs : sres' = ByAssert("Port_port_type", st)
    /\ StatusFrame

(* Port::name *)
St_Port_name ==
    /\ \E st \in StatusArgs : sres' = ByAssert("Port_name", st)
    /\ StatusFrame

(* Port::path *)
St_Port_path ==
    /\ \E st \in StatusArgs : sres' = ByAssert("Port_path", st)
    /\ StatusFrame

(* CameraList::len *)
St_CameraList_len ==
    /\ \E st \in StatusArgs : sres' = ByLen("CameraList_len", st)
    /\ StatusFrame

(* PortList::len *)
St_PortList_len ==
    /\ \E st \in StatusArgs : sres' = ByLen("PortList_len", st)
    /\ StatusFrame

NextStatus ==
    \/ St_Camera_new
    \/ St_Camera_init
    \/ St_Camera_autodetect
    \/ St_Camera_capture_image
    \/ St_Camera_download
    \/ St_Camera_capture_preview
    \/ St_Camera_storage
    \/ St_Camera_summary
    \/ St_Camera_manual
    \/ St_Camera_about_driver
    \/ St_CameraList_name
    \/ St_CameraList_value
    \/ St_PortList_new
    \/ St_PortList_load
    \/ St_FileMedia_new
    \/ St_FileMedia_create
    \/ St_FileMedia_from_file
    \/ St_FileMedia_try_from
    \/ St_FileMedia_from_raw_fd
    \/ St_FileMedia_data
    \/ St_PortList_lookup_name
    \/ St_PortList_lookup_path
    \/ St_Camera_port
    \/ St_Camera_abilities
    \/ St_Port_port_type
    \/ St_Port_name
    \/ St_Port_path
    \/ St_CameraList_len
    \/ St_PortList_len

SpecStatus == Init /\ [][NextStatus]_vars

(* The operations that return a Result, and those whose native return is   *)
(* an index or a count rather than a bare status.                          *)
ResultOps ==
    {"Camera_new", "Camera_init", "Camera_autodetect",
     "Camera_capture_image", "Camera_download", "Camera_capture_preview",
     "Camera_storage", "Camera_summary", "Camera_manual",
     "Camera_about_driver", "CameraList_name", "CameraList_value",
     "PortList_new", "PortList_load", "FileMedia_new",
     "FileMedia_create", "FileMedia_from_file", "FileMedia_try_from",
     "FileMedia_from_raw_fd", "FileMedia_data", "PortList_lookup_name",
     "PortList_lookup_path"}

IndexOps == {"PortList_lookup_name", "PortList_lookup_path"}

NoResultOps ==
    {"Camera_port", "Camera_abilities", "Port_port_type",
     "Port_name", "Port_path", "CameraList_len",
     "PortList_len"}

NonOk(op, st) == IF op \in IndexOps THEN st < 0 ELSE st # GP_OK

(* C7: in every operation that returns a Result, a non-OK native status    *)
(* (negative, or for a bare status anything but GP_OK) gives an Err that   *)
(* carries the code and never a panic; a panic in response to a native     *)
(* status happens only in the operations without a Result.                 *)
C7_NonOkIsErrNotPanic ==
    /\ (sres.op \in ResultOps /\ NonOk(sres.op, sres.status)) =>
           (sres.kind = "Err" /\ sres.code = sres.status)
    /\ (sres.op # "none" /\ sres.kind = "Panic") => sres.op \in NoResultOps

C7_Witness ==
    /\ sres.op = "FileMedia_data" /\ sres.status < 0 /\ sres.kind = "Err"

(* C8: FileMedia::new, from_file, from_raw_fd and data, like lookup_name   *)
(* and lookup_path, return Ok for every status >= 0 and Err carrying the   *)
(* code only for a negative status.                                        *)
C8_NonNegativeIsSuccess ==
    sres.op \in {"FileMedia_new", "FileMedia_from_file", "FileMedia_from_raw_fd",
                 "FileMedia_data", "PortList_lookup_name", "PortList_lookup_path"} =>
        IF sres.status >= 0 THEN sres.kind = "Success"
        ELSE sres.kind = "Err" /\ sres.code = sres.status

(* ======================= the buffer model ============================== *)
(* The most filesystems a device reports.                                  *)
MaxStorages == 2

(* What gp_camera_get_storageinfo returns: GP_OK with the out-parameters   *)
(* stored, GP_ERROR_NOT_SUPPORTED, or GP_ERROR (-1).                       *)
StorageStatuses == {GP_OK, GP_ERROR_NOT_SUPPORTED, -1}

(* What a successful gp_camera_get_storageinfo stores: the number of       *)
(* filesystems and a block of that many descriptors which the caller has   *)
(* to free. With no filesystem to report there is a zero-size block or no  *)
(* block at all (a null pointer).                                          *)
StorageInfos ==
    { i \in [count : 0..MaxStorages, ptr : {"malloc", "null"}] :
        i.count > 0 => i.ptr = "malloc" }

(* The error code read back when an Ok value holding a null buffer pointer *)
(* is taken for the Err variant: whatever lies in the overlapping bytes.   *)
GarbageCodes == {GP_OK, -1}

StorageCall(status, count, ptr, kind, code, len, source) ==
    [op |-> "storage", status |-> status, count |-> count, ptr |-> ptr,
     kind |-> kind, code |-> code, len |-> len, source |-> source]

(* Ok(Vec::from_raw_parts(storage, length, length)): the outcomes, as      *)
(* [kind, code, len, source]. The pointer is used as it came, unchecked. A *)
(* non-null block becomes the storage of the Vec. A null pointer breaks    *)
(* the non-null requirement of Vec: the value is an empty Vec over no      *)
(* storage, or its null pointer makes the Result read as the Err variant.  *)
Vec_from_raw_parts(ptr, length, capacity) ==
    IF ptr # "null"
    THEN { [kind |-> "Ok", code |-> 0, len |-> length, source |-> ptr] }
    ELSE { [kind |-> "Ok", code |-> 0, len |-> length, source |-> "null"] }
         \cup { [kind |-> "Err", code |-> c, len |-> 0, source |-> "none"] :
                  c \in GarbageCodes }

(* Camera::storage *)
Camera_storage ==
    /\ \E st \in StorageStatuses :
         IF ~try_unsafe(st)
         THEN bres' = StorageCall(st, 0, "unset", "Err",
                                  from_libgphoto2(st).code, 0, "none")
         ELSE \E info \in StorageInfos :
                LET storage == info.ptr
                    length == info.count
                IN
                \E r \in Vec_from_raw_parts(storage, length, length) :
                  bres' = StorageCall(st, info.count, info.ptr, r.kind,
                                      r.code, r.len, r.source)
    /\ UNCHANGED <<handleVars, listVars, textVars, statusVars>>

NextBuffer ==
    \/ Camera_summary
    \/ Camera_manual
    \/ Camera_about_driver
    \/ Camera_storage

SpecBuffer == Init /\ [][NextBuffer]_vars

(* C11: the binding hands to its own allocator only heap buffers whose     *)
(* ownership the native layer transferred. The String that summary, manual *)
(* or about_driver returns owns heap storage that outlives the call, not   *)
(* the call's fixed-capacity text buffer, and no such call frees that      *)
(* buffer. Camera::storage builds its Vec only over a non-null             *)
(* caller-freed native block, and returns an empty Vec without error when  *)
(* the device reports no filesystem.                                       *)
C11_OnlyTransferredHeapBuffers ==
    /\ (tres.op # "none" /\ tres.kind = "Ok") => tres.storage = "heap"
    /\ tres.op # "none" => tres.freed # "stack"
    /\ (bres.op = "storage" /\ bres.kind = "Ok") => bres.source = "malloc"
    /\ (bres.op = "storage" /\ bres.status = GP_OK /\ bres.count = 0) =>
           (bres.kind = "Ok" /\ bres.len = 0)

====
